---- MODULE Spec2Model ----
(***************************************************************************)
(* Turn / movement core of the four-player Ludo game: Pawn (Pawns.py),     *)
(* Player (Players.py), Star (Stars.py) and Statekeep (States.py).         *)
(*                                                                         *)
(* Reading conventions for the source.  The entity modules come from       *)
(* different rewrites and name the same attribute differently; the model   *)
(* identifies                                                              *)
(*   Pawn.activepawn            with  pawn.active_pawn   (Players.py:204), *)
(*   Statekeep.activeplayer     with  statekpr.active_player,              *)
(*   Statekeep.nextplayer       with  statekpr.next_player,                *)
(*   Player.turn (the method)   with  current_player.Turn() (States.py:162)*)
(* and a pawn list with the four pawns of a colour in order of number.     *)
(* Pixel positions are kept as grid squares (pixel = 25 * square - 13 is   *)
(* a bijection); the frame-by-frame walk of an animation is collapsed      *)
(* into the tick that completes it.                                        *)
(*                                                                         *)
(* main.py calls Statekeep.update every frame; nothing under src calls     *)
(* Statekeep.move_player, Pawn.update_animation or Star.apply_effect.      *)
(* The actions below are those methods; Next lets the frame loop call      *)
(* them in the order the roll button's gating allows: a click is ignored   *)
(* while a move is in progress, and a walk that has ended is checked for   *)
(* a star before the next click.                                           *)
(***************************************************************************)
EXTENDS Integers, Sequences, FiniteSets, TLC

\* ---------------------------------------------------------------- bounds
MaxTurns == 9
EntryTurns == 2
SessionTurns == 4
MaxSessions == 2
IdleTurns == 5
MaxHandlers == 3

\* ------------------------------------------------------ program constants
LastSquare == 97
STAR_COUNT == 15
EntryRoll == 10

Players == 1..4
Numbers == 1..4
Pawns == Players \X Numbers


redDICT ==
  <<
    <<4,11>>, <<5,11>>, <<6,11>>, <<7,11>>, <<8,11>>, <<9,11>>, <<10,11>>, <<11,11>>,
    <<11,10>>, <<11,9>>, <<11,8>>, <<11,7>>, <<11,6>>, <<11,5>>, <<11,4>>, <<11,3>>,
    <<12,3>>, <<13,3>>, <<14,3>>, <<15,3>>, <<16,3>>, <<17,3>>, <<18,3>>, <<19,3>>,
    <<19,4>>, <<19,5>>, <<19,6>>, <<19,7>>, <<19,8>>, <<19,9>>, <<19,10>>, <<19,11>>,
    <<20,11>>, <<21,11>>, <<22,11>>, <<23,11>>, <<24,11>>, <<25,11>>, <<26,11>>, <<27,11>>,
    <<27,12>>, <<27,13>>, <<27,14>>, <<27,15>>, <<27,16>>, <<27,17>>, <<27,18>>, <<27,19>>,
    <<26,19>>, <<25,19>>, <<24,19>>, <<23,19>>, <<22,19>>, <<21,19>>, <<20,19>>, <<19,19>>,
    <<19,20>>, <<19,21>>, <<19,22>>, <<19,23>>, <<19,24>>, <<19,25>>, <<19,26>>, <<19,27>>,
    <<18,27>>, <<17,27>>, <<16,27>>, <<15,27>>, <<14,27>>, <<13,27>>, <<12,27>>, <<11,27>>,
    <<11,26>>, <<11,25>>, <<11,24>>, <<11,23>>, <<11,22>>, <<11,21>>, <<11,20>>, <<11,19>>,
    <<10,19>>, <<9,19>>, <<8,19>>, <<7,19>>, <<6,19>>, <<5,19>>, <<4,19>>, <<3,19>>,
    <<3,18>>, <<3,17>>, <<3,16>>, <<3,15>>, <<4,15>>, <<5,15>>, <<6,15>>, <<7,15>>,
    <<7,15>> >>

blueDICT ==
  <<
    <<19,4>>, <<19,5>>, <<19,6>>, <<19,7>>, <<19,8>>, <<19,9>>, <<19,10>>, <<19,11>>,
    <<20,11>>, <<21,11>>, <<22,11>>, <<23,11>>, <<24,11>>, <<25,11>>, <<26,11>>, <<27,11>>,
    <<27,12>>, <<27,13>>, <<27,14>>, <<27,15>>, <<27,16>>, <<27,17>>, <<27,18>>, <<27,19>>,
    <<26,19>>, <<25,19>>, <<24,19>>, <<23,19>>, <<22,19>>, <<21,19>>, <<20,19>>, <<19,19>>,
    <<19,20>>, <<19,21>>, <<19,22>>, <<19,23>>, <<19,24>>, <<19,25>>, <<19,26>>, <<19,27>>,
    <<18,27>>, <<17,27>>, <<16,27>>, <<15,27>>, <<14,27>>, <<13,27>>, <<12,27>>, <<11,27>>,
    <<11,26>>, <<11,25>>, <<11,24>>, <<11,23>>, <<11,22>>, <<11,21>>, <<11,20>>, <<11,19>>,
    <<10,19>>, <<9,19>>, <<8,19>>, <<7,19>>, <<6,19>>, <<5,19>>, <<4,19>>, <<3,19>>,
    <<3,18>>, <<3,17>>, <<3,16>>, <<3,15>>, <<3,14>>, <<3,13>>, <<3,12>>, <<3,11>>,
    <<4,11>>, <<5,11>>, <<6,11>>, <<7,11>>, <<8,11>>, <<9,11>>, <<10,11>>, <<11,11>>,
    <<11,10>>, <<11,9>>, <<11,8>>, <<11,7>>, <<11,6>>, <<11,5>>, <<11,4>>, <<11,3>>,
    <<12,3>>, <<13,3>>, <<14,3>>, <<15,3>>, <<15,4>>, <<15,5>>, <<15,6>>, <<15,7>>,
    <<15,7>> >>

yellowDICT ==
  <<
    <<26,19>>, <<25,19>>, <<24,19>>, <<23,19>>, <<22,19>>, <<21,19>>, <<20,19>>, <<19,19>>,
    <<19,20>>, <<19,21>>, <<19,22>>, <<19,23>>, <<19,24>>, <<19,25>>, <<19,26>>, <<19,27>>,
    <<18,27>>, <<17,27>>, <<16,27>>, <<15,27>>, <<14,27>>, <<13,27>>, <<12,27>>, <<11,27>>,
    <<11,26>>, <<11,25>>, <<11,24>>, <<11,23>>, <<11,22>>, <<11,21>>, <<11,20>>, <<11,19>>,
    <<10,19>>, <<9,19>>, <<8,19>>, <<7,19>>, <<6,19>>, <<5,19>>, <<4,19>>, <<3,19>>,
    <<3,18>>, <<3,17>>, <<3,16>>, <<3,15>>, <<3,14>>, <<3,13>>, <<3,12>>, <<3,11>>,
    <<4,11>>, <<5,11>>, <<6,11>>, <<7,11>>, <<8,11>>, <<9,11>>, <<10,11>>, <<11,11>>,
    <<11,10>>, <<11,9>>, <<11,8>>, <<11,7>>, <<11,6>>, <<11,5>>, <<11,4>>, <<11,3>>,
    <<12,3>>, <<13,3>>, <<14,3>>, <<15,3>>, <<16,3>>, <<17,3>>, <<18,3>>, <<19,3>>,
    <<19,4>>, <<19,5>>, <<19,6>>, <<19,7>>, <<19,8>>, <<19,9>>, <<19,10>>, <<19,11>>,
    <<20,11>>, <<21,11>>, <<22,11>>, <<23,11>>, <<24,11>>, <<25,11>>, <<26,11>>, <<27,11>>,
    <<27,12>>, <<27,13>>, <<27,14>>, <<27,15>>, <<26,15>>, <<25,15>>, <<24,15>>, <<23,15>>,
    <<23,15>> >>

greenDICT ==
  <<
    <<11,26>>, <<11,25>>, <<11,24>>, <<11,23>>, <<11,22>>, <<11,21>>, <<11,20>>, <<11,19>>,
    <<10,19>>, <<9,19>>, <<8,19>>, <<7,19>>, <<6,19>>, <<5,19>>, <<4,19>>, <<3,19>>,
    <<3,18>>, <<3,17>>, <<3,16>>, <<3,15>>, <<3,14>>, <<3,13>>, <<3,12>>, <<3,11>>,
    <<4,11>>, <<5,11>>, <<6,11>>, <<7,11>>, <<8,11>>, <<9,11>>, <<10,11>>, <<11,11>>,
    <<11,10>>, <<11,9>>, <<11,8>>, <<11,7>>, <<11,6>>, <<11,5>>, <<11,4>>, <<11,3>>,
    <<12,3>>, <<13,3>>, <<14,3>>, <<15,3>>, <<16,3>>, <<17,3>>, <<18,3>>, <<19,3>>,
    <<19,4>>, <<19,5>>, <<19,6>>, <<19,7>>, <<19,8>>, <<19,9>>, <<19,10>>, <<19,11>>,
    <<20,11>>, <<21,11>>, <<22,11>>, <<23,11>>, <<24,11>>, <<25,11>>, <<26,11>>, <<27,11>>,
    <<27,12>>, <<27,13>>, <<27,14>>, <<27,15>>, <<27,16>>, <<27,17>>, <<27,18>>, <<27,19>>,
    <<26,19>>, <<25,19>>, <<24,19>>, <<23,19>>, <<22,19>>, <<21,19>>, <<20,19>>, <<19,19>>,
    <<19,20>>, <<19,21>>, <<19,22>>, <<19,23>>, <<19,24>>, <<19,25>>, <<19,26>>, <<19,27>>,
    <<18,27>>, <<17,27>>, <<16,27>>, <<15,27>>, <<15,26>>, <<15,25>>, <<15,24>>, <<15,23>>,
    <<15,23>> >>

BOARD_POSITIONS ==
  <<
    <<4,11>>, <<5,11>>, <<6,11>>, <<7,11>>, <<8,11>>, <<9,11>>, <<10,11>>, <<11,11>>,
    <<11,10>>, <<11,9>>, <<11,8>>, <<11,7>>, <<11,6>>, <<11,5>>, <<11,4>>, <<11,3>>,
    <<12,3>>, <<13,3>>, <<14,3>>, <<15,3>>, <<16,3>>, <<17,3>>, <<18,3>>, <<19,3>>,
    <<19,4>>, <<19,5>>, <<19,6>>, <<19,7>>, <<19,8>>, <<19,9>>, <<19,10>>, <<19,11>>,
    <<20,11>>, <<21,11>>, <<22,11>>, <<23,11>>, <<24,11>>, <<25,11>>, <<26,11>>, <<27,11>>,
    <<27,12>>, <<27,13>>, <<27,14>>, <<27,15>>, <<27,16>>, <<27,17>>, <<27,18>>, <<27,19>>,
    <<26,19>>, <<25,19>>, <<24,19>>, <<23,19>>, <<22,19>>, <<21,19>>, <<20,19>>, <<19,19>>,
    <<19,20>>, <<19,21>>, <<19,22>>, <<19,23>>, <<19,24>>, <<19,25>>, <<19,26>>, <<19,27>>,
    <<18,27>>, <<17,27>>, <<16,27>>, <<15,27>>, <<14,27>>, <<13,27>>, <<12,27>>, <<11,27>>,
    <<11,26>>, <<11,25>>, <<11,24>>, <<11,23>>, <<11,22>>, <<11,21>>, <<11,20>>, <<11,19>>,
    <<10,19>>, <<9,19>>, <<8,19>>, <<7,19>>, <<6,19>>, <<5,19>>, <<4,19>>, <<3,19>>,
    <<3,18>>, <<3,17>>, <<3,16>>, <<3,15>>, <<4,15>>, <<5,15>>, <<6,15>>, <<7,15>>,
    <<15,4>>, <<15,5>>, <<15,6>>, <<15,7>>, <<26,15>>, <<25,15>>, <<24,15>>, <<23,15>>,
    <<15,26>>, <<15,25>>, <<15,24>>, <<15,23>>, <<3,14>>, <<3,13>>, <<3,12>>, <<3,11>> >>


\* Squares a star may never occupy (keys of BOARD_POSITIONS).
RESTRICTED_POSITIONS == {1, 25, 49, 73} \cup (93..108)

\* Path tables in which Blue's path runs over a square of Red's finish lane.
DICTCrossing ==
  <<redDICT,
    [k \in 1..Len(blueDICT) |-> IF k = 50 THEN redDICT[94] ELSE blueDICT[k]],
    yellowDICT, greenDICT>>

\* The path table of each colour, in turn order.
DICT == <<redDICT, blueDICT, yellowDICT, greenDICT>>

\* Side of a grid square, in pixels.
TILE_SIZE == 25

\* steps_per_square of Pawn.setup_animation_path
steps_per_square == 10

\* A scaled copy that loses the last two keys of the table.
scale_dictShort(dict_pos, scale) ==
  [k \in 1..(Len(dict_pos) - 2) |->
     <<dict_pos[k][1] * scale - 13, dict_pos[k][2] * scale - 13>>]

\* scale_dict: a new table with the keys of dict_pos and its squares as
\* pixel positions; the table it is given is left as it was.
scale_dict(dict_pos, scale) ==
  [k \in DOMAIN dict_pos |->
     <<dict_pos[k][1] * scale - 13, dict_pos[k][2] * scale - 13>>]

\* The grid square whose pixel position scale_dict gives as px.
GridSquare(px) == <<(px[1] + 13) \div TILE_SIZE, (px[2] + 13) \div TILE_SIZE>>

\* Final resting squares of finished pawns, per colour and pawn number.
FINISH_POSITIONS ==
  << << <<9,13>>,  <<10,13>>, <<12,13>>, <<13,13>> >>,
     << <<13,9>>,  <<14,9>>,  <<16,9>>,  <<17,9>>  >>,
     << <<17,13>>, <<18,13>>, <<20,13>>, <<21,13>> >>,
     << <<13,17>>, <<14,17>>, <<16,17>>, <<17,17>> >> >>

\* Yard squares the pawns are constructed on, per colour and pawn number.
startpos ==
  << << <<5,4>>,   <<8,4>>,   <<5,7>>,   <<8,7>>   >>,
     << <<22,4>>,  <<25,4>>,  <<22,7>>,  <<25,7>>  >>,
     << <<22,21>>, <<25,21>>, <<22,24>>, <<25,24>> >>,
     << <<5,21>>,  <<8,21>>,  <<5,24>>,  <<8,24>>  >> >>

\* Squares create_stars may sample a star position from.
AvailablePositions ==
  {BOARD_POSITIONS[k] : k \in (1..112) \ RESTRICTED_POSITIONS}

\* The squares that hold a star: one outcome of
\* random.sample(available_positions, STAR_COUNT) in create_stars.
StarLayout ==
  { <<11,10>>, <<5,11>>, <<10,11>>, <<12,3>>, <<17,3>>, <<19,5>>, <<19,10>>,
    <<27,12>>, <<27,17>>, <<25,19>>, <<20,19>>, <<18,27>>, <<13,27>>,
    <<11,25>>, <<3,12>> }

\* create_stars: the sample holds STAR_COUNT distinct available squares.
StarLayoutOK ==
  /\ StarLayout \subseteq AvailablePositions
  /\ Cardinality(StarLayout) = STAR_COUNT

\* Active state tracking of Statekeep: set at construction, never written.
active_states == <<TRUE, FALSE, FALSE, FALSE>>

\* One die, and the totals dice_roll can return.
DiceFaces == 1..6
DiceTotals == {a + b : a \in DiceFaces, b \in DiceFaces}

\* Outcome codes of random.randint(0, 2) in Star.apply_effect.
StarEffects == 0..2

\* The dice totals and teleport targets the exploration draws its inputs
\* from: a total on each side of the entry threshold, and targets from
\* which these totals stay on the path (1), land on 96 and 97 (87),
\* overshoot (90), or which already are a last square (96).
DiceSample == {9, 10}
TeleportSample == {1, 87, 90, 96}

VARIABLES
  counter,                  \* Pawn.counter
  activepawn,               \* Pawn.activepawn
  has_reached_finish,       \* Pawn.has_reached_finish
  is_move,                  \* Pawn.is_move
  teleporting,              \* Pawn.teleporting
  just_finished_animation,  \* Pawn.just_finished_animation
  king,                     \* Pawn.king
  kingPawn,                 \* Pawn.kingPawn
  rect,                     \* Pawn.rect.center, as a grid square
  animation_end,            \* path square Pawn.animation_path ends on, 0 if empty
  pawns,                    \* Player.pawns
  pawns_home,               \* Player.pawns_home
  active,                   \* Player.active
  turn,                     \* Player.turn (the flag)
  turn_states,              \* Statekeep.turn_states
  stActive,                 \* Statekeep.redActive .. greenActive
  stTurn,                   \* Statekeep.redTurn .. greenTurn
  activeplayer,             \* Statekeep.activeplayer
  nextplayer,               \* Statekeep.nextplayer
  counterlist,              \* Statekeep.redcounters .. greencounters
  turns,                    \* number of move_player calls so far
  last_effect,              \* result of the last apply_effect, "" if none
  roll_again_for,           \* player whose pawn last drew roll_again, else 0
  last_roll,                \* total of the last dice_roll, 0 before the first
  moved,                    \* pawn the last turn moved, NoPawn if it moved none
  home_credits,             \* per pawn, the pawns_home increments it caused
  entry_roll,               \* roll of the last turn's move_out_onto_board, else 0
  sessions,                 \* number of game sessions started so far
  stars,                    \* Stars.stars: the grid squares that hold a star
  dict,                     \* Pawn.dict: the pawn's path table
  game_handlers,            \* EventHandler._game_handlers
  last_dispatch,            \* the last trigger_game_event call and its outcome
  animation_index,          \* Pawn.animation_index
  animation_len             \* len(Pawn.animation_path)

pawnvars == <<counter, activepawn, has_reached_finish, is_move, teleporting,
              just_finished_animation, king, kingPawn, rect, animation_end>>
playervars == <<pawns, pawns_home, active, turn>>
statevars == <<turn_states, stActive, stTurn, activeplayer, nextplayer,
               counterlist>>
auxvars == <<turns, last_effect, roll_again_for, last_roll,
             moved, home_credits, entry_roll, sessions>>
eventvars == <<game_handlers, last_dispatch>>
animvars == <<animation_index, animation_len>>
vars == <<pawnvars, playervars, statevars, auxvars, stars, dict, eventvars, animvars>>

NoPawn == <<0, 0>>

\* ------------------------------------------------------------------ Pawn

\* A move that clamps at the last square before testing for the finish.
AdvanceClamped(c, dice) ==
  IF c + dice > LastSquare THEN LastSquare ELSE c + dice

\* Pawn.move: self.counter += dice
Advance(c, dice) == c + dice

\* A finish test that knows square 96 only.
IsFinish96(nc) == nc = 96

\* Pawn.move: the counter has reached one of the two last squares.
IsFinish(nc) == nc = 96 \/ nc = 97

\* An overshoot test that never fires.
OvershootNever(nc) == FALSE

\* Pawn.move: the counter has gone beyond the last square.
Overshoot(nc) == nc > LastSquare

\* An overshoot that stops on the last square.
RejectToLast(nc, dice) == LastSquare

\* An overshoot that carries on around the board from its first square.
RejectWrapped(nc, dice) == nc - LastSquare

\* Pawn.move: self.counter -= dice
Reject(nc, dice) == nc - dice

\* Pawn.move: the counter the move leaves behind.
MoveCounter(c, dice) ==
  LET nc == Advance(c, dice)
  IN  IF IsFinish(nc) THEN nc
      ELSE IF Overshoot(nc) THEN Reject(nc, dice)
      ELSE nc

\* Pawn.move: the move takes the finish branch.
EntersFinish(c, dice) == IsFinish(Advance(c, dice))

\* A move that sends home every other pawn standing on the landing square.
MoveCountersCapturing(ctr, pw, dice) ==
  [q \in Pawns |->
     IF q = pw THEN MoveCounter(ctr[q], dice)
     ELSE IF ctr[q] > 0 /\ rect[q] = DICT[pw[1]][MoveCounter(ctr[pw], dice)]
          THEN 0
          ELSE ctr[q]]

\* Pawn.move: the counters after the move; only self.counter is written.
MoveCounters(ctr, pw, dice) == [ctr EXCEPT ![pw] = MoveCounter(@, dice)]

\* Pawn.move: the player whose pawn list holds the pawn.
Owner(pw) == CHOOSE p \in Players : pw \in {<<p, n>> : n \in Numbers}

\* Pawn.move: the finish branch credits the owner unless already flagged.
CreditsHome(finish, flagged) == finish /\ ~flagged

\* Pawn.setup_animation_path(old, new): the square the path ends on; the
\* path is empty when new does not exceed old.
PathEnd(old, new) == IF new > old THEN new ELSE 0

\* Pawn.update_pawn_state / set_next_player_pawn: successor pawn number.
NextPawnNumber(n) == (n % 4) + 1

\* The first pawn of player p, in list order, whose active flag is set.
FirstActivePawn(ap, p) ==
  IF \E n \in Numbers : ap[<<p, n>>]
  THEN CHOOSE n \in Numbers :
         ap[<<p, n>>] /\ \A m \in Numbers : m < n => ~ap[<<p, m>>]
  ELSE 0

\* Pawn.set_next_player_pawn: rotate the active flag of the next player.
set_next_player_pawn(ap, np) ==
  LET m == FirstActivePawn(ap, np)
  IN  IF m = 0 THEN ap
      ELSE [[ap EXCEPT ![<<np, m>>] = FALSE]
                EXCEPT ![<<np, NextPawnNumber(m)>>] = TRUE]

\* Pawn.update_pawn_state for the pawn numbered n.
update_pawn_state(ap, n, actp, nxtp) ==
  set_next_player_pawn([ap EXCEPT ![<<actp, NextPawnNumber(n)>>] = TRUE], nxtp)

\* ---------------------------------------------------------------- Player

\* Player.set_next_player: the player after the active player.
set_next_player(actp) == (actp % 4) + 1

\* An entry test that lets a pawn out one total earlier.
EntryAllowedEarly(roll) == roll >= EntryRoll - 1

\* Player.move_out_onto_board: the roll lets a pawn out.
EntryAllowed(roll) == roll >= EntryRoll

\* Player.move with the rolled distance; ent tells whether
\* move_out_onto_board has just counted a pawn onto the board.
PlayerMove(p, distance, ent) ==
  LET n   == FirstActivePawn(activepawn, p)
      pw  == <<p, n>>
      nxt == set_next_player(activeplayer)
  IN  /\ pawns' = IF ent THEN [pawns EXCEPT ![p] = @ + 1] ELSE pawns
      /\ active' = IF ent THEN [active EXCEPT ![p] = TRUE] ELSE active
      /\ stActive' = [stActive EXCEPT ![p] = active'[p]]
      /\ stTurn' = [stTurn EXCEPT ![p] = turn[p]]
      /\ nextplayer' = nxt
      /\ last_roll' = distance
      /\ UNCHANGED <<activeplayer, turn>>
      /\ IF n = 0
         THEN /\ moved' = NoPawn
              /\ UNCHANGED <<pawnvars, pawns_home, counterlist, home_credits>>
         ELSE LET fin == EntersFinish(counter[pw], distance)
              IN  /\ moved' = pw
                  /\ counter' = MoveCounters(counter, pw, distance)
                  /\ kingPawn' = IF fin THEN [kingPawn EXCEPT ![pw] = @ + 1]
                                 ELSE kingPawn
                  /\ pawns_home' =
                       IF CreditsHome(fin, has_reached_finish[pw])
                       THEN [pawns_home EXCEPT ![Owner(pw)] = @ + 1]
                       ELSE pawns_home
                  /\ home_credits' =
                       [home_credits EXCEPT ![pw] =
                          @ + pawns_home'[Owner(pw)] - pawns_home[Owner(pw)]]
                  /\ has_reached_finish' =
                       IF fin THEN [has_reached_finish EXCEPT ![pw] = TRUE]
                       ELSE has_reached_finish
                  /\ king' = IF fin THEN [king EXCEPT ![pw] = TRUE] ELSE king
                  /\ activepawn' =
                       update_pawn_state(
                         IF fin THEN [activepawn EXCEPT ![pw] = FALSE]
                         ELSE activepawn,
                         n, activeplayer, nxt)
                  /\ is_move' = [is_move EXCEPT ![pw] = TRUE]
                  /\ animation_end' =
                       [animation_end EXCEPT
                          ![pw] = PathEnd(counter[pw], counter'[pw])]
                  /\ counterlist' = counter'
                  /\ UNCHANGED <<teleporting, just_finished_animation, rect>>

\* Player.turn for player p with the dice totals roll (entry) and distance.
PlayerTurn(p, roll, distance) ==
  IF pawns[p] < 1
  THEN /\ entry_roll' = roll
       /\ IF EntryAllowed(roll)
          THEN PlayerMove(p, distance, TRUE)
          ELSE /\ last_roll' = roll
               /\ moved' = NoPawn
               /\ UNCHANGED <<pawnvars, playervars, stActive, stTurn,
                              activeplayer, nextplayer, counterlist,
                              home_credits>>
  ELSE /\ entry_roll' = 0
       /\ PlayerMove(p, distance, FALSE)

\* ------------------------------------------------------------- Statekeep

\* Statekeep.move_player: the colour whose turn it is (0 if none).
CurrentPlayer ==
  IF \E p \in Players : turn_states[p]
  THEN CHOOSE p \in Players :
         turn_states[p] /\ \A q \in Players : q < p => ~turn_states[q]
  ELSE 0

\* A turn order that passes over the next colour.
NextColorSkip(p) == ((p + 1) % 4) + 1

\* Statekeep.move_player: index of the colour that gets the next turn.
NextColor(p) == (p % 4) + 1

\* A turn update that forgets to clear the other colours.
TurnStatesKeep(ts, nc) == [ts EXCEPT ![nc] = TRUE]

\* Statekeep.move_player: turn_states[color] = (color == next_color).
TurnStatesAfter(ts, nc) == [p \in Players |-> p = nc]

\* A search that hands the turn to the next colour whatever its pawns_home.
NextValidTurnStatesBlind(ts, home) ==
  LET cur == IF \E p \in Players : ts[p]
             THEN CHOOSE p \in Players :
                    ts[p] /\ \A q \in Players : q < p => ~ts[q]
             ELSE 0
  IN  IF cur = 0 THEN ts ELSE [p \in Players |-> p = (cur % 4) + 1]

\* Statekeep.find_next_valid_player: the turn states it leaves behind.
NextValidTurnStates(ts, home) ==
  LET cur == IF \E p \in Players : ts[p]
             THEN CHOOSE p \in Players :
                    ts[p] /\ \A q \in Players : q < p => ~ts[q]
             ELSE 0
      cand == {i \in 1..3 : home[((cur + i - 1) % 4) + 1] < 4}
  IN  IF cur = 0 THEN ts
      ELSE IF cand # {}
           THEN LET i == CHOOSE i \in cand : \A j \in cand : i <= j
                IN  [p \in Players |-> p = ((cur + i - 1) % 4) + 1]
           ELSE [ts EXCEPT ![cur] = TRUE]

\* Player.has_won
has_won(p) == pawns_home[p] >= 4

\* Statekeep.game_complete
game_complete == \A p \in Players : pawns_home[p] >= 4

\* ------------------------------------------------------------------ Star

\* Teleport targets on which no other pawn has its counter.
ValidPositionsByCounter(pw) ==
  {pos \in 1..96 : \A other \in Pawns : other # pw => counter[other] # pos}

\* A send home that leaves the owner's pawns as it was.
SentHomeUncounted(pws, owner) == pws

\* Star._handle_send_home: player.pawns -= 1 for the pawn's owner.
SentHome(pws, owner) == [pws EXCEPT ![owner] = @ - 1]

\* A teleport that sends home every other pawn whose counter is the target.
TeleportCountersCapturing(ctr, pw, new_pos) ==
  [q \in Pawns |->
     IF q = pw THEN new_pos ELSE IF ctr[q] = new_pos THEN 0 ELSE ctr[q]]

\* Star._handle_teleport: pawn.counter = new_pos, no other counter written.
TeleportCounters(ctr, pw, new_pos) == [ctr EXCEPT ![pw] = new_pos]

\* Star._get_valid_positions: teleport targets free of every other pawn.
ValidPositions(pw) ==
  {pos \in 1..96 :
     \A other \in Pawns :
        other # pw => rect[other] # GridSquare(dict[pw][pos])}

\* ---------------------------------------------------------- EventHandler

\* The game event types the exploration registers handlers for, the
\* handlers, and what a call of a handler can do: return, raise an
\* exception of class Exception, or raise SystemExit (sys.exit() in the
\* handler), which is a BaseException and not an Exception.
GameEvents == {"PAWN_MOVE", "STAR_EFFECT"}
Handlers == 1..2
Outcomes == {"returns", "Exception", "SystemExit"}

\* A handler clause that catches nothing.
CaughtNever(outcome) == FALSE

\* EventHandler.trigger_game_event: except Exception as e
Caught(outcome) == outcome = "Exception"

\* EventHandler.trigger_game_event: the loop over the handlers hs from the
\* i-th on, out[i] being what the call of the i-th does; the handlers it
\* calls and what leaves the loop.
RECURSIVE Dispatch(_, _, _)
Dispatch(hs, out, i) ==
  IF i > Len(hs) THEN [calls |-> <<>>, escaped |-> "none"]
  ELSE IF out[i] = "returns" \/ Caught(out[i])
       THEN LET rest == Dispatch(hs, out, i + 1)
            IN  [calls |-> <<hs[i]>> \o rest.calls, escaped |-> rest.escaped]
       ELSE [calls |-> <<hs[i]>>, escaped |-> out[i]]

\* No trigger_game_event call has been made.
NoDispatch ==
  [type |-> "none", handlers |-> <<>>, outcomes |-> <<>>, calls |-> <<>>,
   escaped |-> "none"]

\* Pawn.__init__: the animation path is empty.
NoAnimationPath ==
  /\ animation_index = [pw \in Pawns |-> 0]
  /\ animation_len = [pw \in Pawns |-> 0]

\* EventHandler.__init__: no handler is registered.
NoHandlers ==
  /\ game_handlers = [e \in GameEvents |-> <<>>]
  /\ last_dispatch = NoDispatch

\* EventHandler.add_game_handler
AddGameHandler(e, h) ==
  /\ Len(game_handlers[e]) < MaxHandlers
  /\ game_handlers' = [game_handlers EXCEPT ![e] = Append(@, h)]
  /\ UNCHANGED <<pawnvars, playervars, statevars, auxvars, stars, dict,
                 last_dispatch, animvars>>

\* EventHandler.trigger_game_event
TriggerGameEvent(e) ==
  /\ \E out \in [1..Len(game_handlers[e]) -> Outcomes] :
       LET r == Dispatch(game_handlers[e], out, 1)
       IN  last_dispatch' =
             [type |-> e, handlers |-> game_handlers[e], outcomes |-> out,
              calls |-> r.calls, escaped |-> r.escaped]
  /\ UNCHANGED <<pawnvars, playervars, statevars, auxvars, stars, dict,
                 game_handlers, animvars>>

NextEvents ==
  \/ \E e \in GameEvents, h \in Handlers : AddGameHandler(e, h)
  \/ \E e \in GameEvents : TriggerGameEvent(e)

\* ----------------------------------------------------------------- state

\* The state after Statekeep.__init__ and the construction of the pawns,
\* the players and the stars, the stars on layout; t turns are counted as
\* played.
FreshGame(layout, t) ==
  /\ counter = [pw \in Pawns |-> 0]
  /\ activepawn = [pw \in Pawns |-> pw[2] = 1]
  /\ has_reached_finish = [pw \in Pawns |-> FALSE]
  /\ is_move = [pw \in Pawns |-> FALSE]
  /\ teleporting = [pw \in Pawns |-> FALSE]
  /\ just_finished_animation = [pw \in Pawns |-> FALSE]
  /\ king = [pw \in Pawns |-> FALSE]
  /\ kingPawn = [pw \in Pawns |-> 0]
  /\ rect = [pw \in Pawns |-> startpos[pw[1]][pw[2]]]
  /\ animation_end = [pw \in Pawns |-> 0]
  /\ pawns = [p \in Players |-> 0]
  /\ pawns_home = [p \in Players |-> 0]
  /\ active = [p \in Players |-> FALSE]
  /\ turn = [p \in Players |-> FALSE]
  /\ turn_states = [p \in Players |-> p = 1]
  /\ stActive = [p \in Players |-> FALSE]
  /\ stTurn = [p \in Players |-> FALSE]
  /\ activeplayer = 1
  /\ nextplayer = 2
  /\ counterlist = [pw \in Pawns |-> 0]
  /\ turns = t
  /\ last_effect = ""
  /\ roll_again_for = 0
  /\ last_roll = 0
  /\ moved = NoPawn
  /\ home_credits = [pw \in Pawns |-> 0]
  /\ entry_roll = 0
  /\ sessions = 1
  /\ stars = layout
  /\ dict = [pw \in Pawns |-> scale_dict(DICT[pw[1]], TILE_SIZE)]
  /\ NoHandlers
  /\ NoAnimationPath

\* A fresh game on the sampled star layout.
Init == FreshGame(StarLayout, 0)

\* Statekeep.move_player with the dice drawn from totals: the current
\* player takes its turn, then the turn goes to the next colour.
MovePlayer(totals) ==
  /\ turns < MaxTurns
  /\ CurrentPlayer # 0
  /\ \E roll \in totals, distance \in totals :
       PlayerTurn(CurrentPlayer, roll, distance)
  /\ turn_states' = TurnStatesAfter(turn_states, NextColor(CurrentPlayer))
  /\ turns' = turns + 1
  /\ roll_again_for' = 0
  /\ UNCHANGED <<last_effect, sessions, stars, dict, eventvars>>

\* Pawn.update_animation: the tick that ends a walk or a finish teleport.
UpdateAnimation(pw) ==
  /\ teleporting[pw] \/ is_move[pw]
  /\ IF teleporting[pw]
     THEN /\ rect' = [rect EXCEPT ![pw] = FINISH_POSITIONS[pw[1]][pw[2]]]
          /\ teleporting' = [teleporting EXCEPT ![pw] = FALSE]
          /\ just_finished_animation' =
               [just_finished_animation EXCEPT ![pw] = TRUE]
          /\ UNCHANGED <<is_move, has_reached_finish>>
     ELSE /\ is_move' = [is_move EXCEPT ![pw] = FALSE]
          /\ rect' = IF animation_end[pw] > 0
                     THEN [rect EXCEPT
                             ![pw] = GridSquare(dict[pw][animation_end[pw]])]
                     ELSE rect
          /\ IF has_reached_finish[pw]
             THEN /\ teleporting' = [teleporting EXCEPT ![pw] = TRUE]
                  /\ has_reached_finish' =
                       [has_reached_finish EXCEPT ![pw] = FALSE]
                  /\ UNCHANGED just_finished_animation
             ELSE /\ just_finished_animation' =
                       [just_finished_animation EXCEPT ![pw] = TRUE]
                  /\ UNCHANGED <<teleporting, has_reached_finish>>
  /\ UNCHANGED <<counter, activepawn, king, kingPawn, animation_end,
                 playervars, statevars, auxvars, stars, dict, eventvars, animvars>>

\* Star.apply_effect on a pawn whose walk has ended on a star, the teleport
\* target drawn from targets.
ApplyEffect(pw, targets) ==
  /\ just_finished_animation[pw]
  /\ rect[pw] \in stars
  /\ \E effect \in StarEffects :
       \/ /\ effect = 1
          /\ last_effect' = "roll_again"
          /\ roll_again_for' = Owner(pw)
          /\ UNCHANGED <<counter, rect, pawns>>
       \/ /\ effect = 2
          /\ roll_again_for' = 0
          /\ IF ValidPositions(pw) # {}
             THEN \E new_pos \in ValidPositions(pw) \cap targets :
                    /\ counter' = TeleportCounters(counter, pw, new_pos)
                    /\ rect' = [rect EXCEPT
                                  ![pw] = GridSquare(dict[pw][new_pos])]
                    /\ last_effect' = "teleported"
             ELSE /\ last_effect' = "no_effect"
                  /\ UNCHANGED <<counter, rect>>
          /\ UNCHANGED pawns
       \/ /\ effect = 0
          /\ roll_again_for' = 0
          /\ counter' = [counter EXCEPT ![pw] = 0]
          /\ rect' = [rect EXCEPT ![pw] = startpos[pw[1]][pw[2]]]
          /\ pawns' = SentHome(pawns, Owner(pw))
          /\ last_effect' = "died"
  /\ just_finished_animation' = [just_finished_animation EXCEPT ![pw] = FALSE]
  /\ UNCHANGED <<activepawn, has_reached_finish, is_move, teleporting, king,
                 kingPawn, animation_end, pawns_home, active, turn, statevars,
                 turns, last_roll, moved, home_credits, entry_roll, sessions,
                 stars, dict, eventvars, animvars>>

\* Star.apply_effect with the teleport targets of the sample.
StarLanding(pw) == ApplyEffect(pw, TeleportSample)

\* Statekeep.update: refresh the counter lists, the active player and the
\* players' flags.
Update ==
  /\ counterlist' = counter
  /\ activeplayer' =
       IF \E p \in Players : active_states[p]
       THEN CHOOSE p \in Players :
              active_states[p] /\ \A q \in Players : q < p => ~active_states[q]
       ELSE activeplayer
  /\ active' = [p \in Players |-> stActive[p]]
  /\ turn' = [p \in Players |-> stTurn[p]]
  /\ UNCHANGED <<pawnvars, pawns, pawns_home, turn_states, stActive, stTurn,
                 nextplayer, auxvars, stars, dict, eventvars, animvars>>

\* The walk of pawn pw has ended on a square without a star.
LandingChecked(pw) ==
  /\ just_finished_animation[pw]
  /\ rect[pw] \notin stars
  /\ just_finished_animation' = [just_finished_animation EXCEPT ![pw] = FALSE]
  /\ UNCHANGED <<counter, activepawn, has_reached_finish, is_move, teleporting,
                 king, kingPawn, rect, animation_end, playervars, statevars,
                 auxvars, stars, dict, eventvars, animvars>>

\* The pawns whose move is still in progress: animating, or waiting for
\* the star check that follows the animation.
InFlight ==
  {pw \in Pawns :
     is_move[pw] \/ teleporting[pw] \/ just_finished_animation[pw]}

\* A click on the roll button that is served whatever the pawns are doing.
RollClickAnytime ==
  /\ MovePlayer(DiceTotals \cap DiceSample)
  /\ UNCHANGED animvars

\* A click on the roll button; it is ignored while a move is in progress.
RollClick ==
  /\ InFlight = {}
  /\ MovePlayer(DiceTotals \cap DiceSample)
  /\ UNCHANGED animvars

Next ==
  \/ RollClick
  \/ \E pw \in Pawns : LandingChecked(pw)
  \/ \E pw \in Pawns : UpdateAnimation(pw)
  \/ \E pw \in Pawns : StarLanding(pw)
  \/ Update

Spec == Init /\ [][Next]_vars

\* The event dispatcher alone: handlers are registered and events triggered
\* before the first turn of a game.
SpecEvents == Init /\ [][NextEvents]_vars

\* ------------------------------------------------------- one move, any dice
\* Pawn.move is a function of the pawn's counter and the dice.  SpecMove
\* applies it to every counter a teleport can leave and every dice total:
\* it starts where Spec stands when Red has entered with a move of 9 onto
\* the star, the star has teleported the pawn to square c, and Blue,
\* Yellow and Green have each failed to enter; one more turn is played.

MoveInput(c, t) ==
  /\ counter = [pw \in Pawns |-> IF pw = <<1, 1>> THEN c ELSE 0]
  /\ activepawn =
       [pw \in Pawns |-> pw \in {<<1, 1>>, <<1, 2>>, <<2, 2>>, <<3, 1>>, <<4, 1>>}]
  /\ has_reached_finish = [pw \in Pawns |-> FALSE]
  /\ is_move = [pw \in Pawns |-> FALSE]
  /\ teleporting = [pw \in Pawns |-> FALSE]
  /\ just_finished_animation = [pw \in Pawns |-> FALSE]
  /\ king = [pw \in Pawns |-> FALSE]
  /\ kingPawn = [pw \in Pawns |-> 0]
  /\ rect = [pw \in Pawns |->
               IF pw = <<1, 1>> THEN DICT[1][c] ELSE startpos[pw[1]][pw[2]]]
  /\ animation_end = [pw \in Pawns |-> IF pw = <<1, 1>> THEN 9 ELSE 0]
  /\ pawns = [p \in Players |-> IF p = 1 THEN 1 ELSE 0]
  /\ pawns_home = [p \in Players |-> 0]
  /\ active = [p \in Players |-> p = 1]
  /\ turn = [p \in Players |-> FALSE]
  /\ turn_states = [p \in Players |-> p = 1]
  /\ stActive = [p \in Players |-> p = 1]
  /\ stTurn = [p \in Players |-> FALSE]
  /\ activeplayer = 1
  /\ nextplayer = 2
  /\ counterlist = counter
  /\ turns = t
  /\ last_effect = "teleported"
  /\ roll_again_for = 0
  /\ last_roll = 9
  /\ moved = NoPawn
  /\ home_credits = [pw \in Pawns |-> 0]
  /\ entry_roll = 9
  /\ sessions = 1
  /\ stars = StarLayout
  /\ dict = [pw \in Pawns |-> scale_dict(DICT[pw[1]], TILE_SIZE)]
  /\ NoHandlers
  /\ NoAnimationPath

InitMove == \E c \in 1..96 : MoveInput(c, MaxTurns - 1)

\* A click on the roll button with any dice.
RollClickAnyDice ==
  /\ InFlight = {}
  /\ MovePlayer(DiceTotals)
  /\ UNCHANGED animvars

NextMove ==
  \/ RollClickAnyDice
  \/ \E pw \in Pawns : LandingChecked(pw)
  \/ \E pw \in Pawns : UpdateAnimation(pw)
  \/ \E pw \in Pawns : StarLanding(pw)
  \/ Update

SpecMove == InitMove /\ [][NextMove]_vars

\* ------------------------------------------------- one move, tick by tick
\* Pawn.move builds the animation path and Pawn.update_animation walks it
\* one point per tick.  SpecAnim plays one turn with every dice total, from
\* a fresh game and from the squares of AnimStarts, and follows the walk
\* point by point; the frame loop ticks every pawn in every frame.

AnimStarts == {1, 40, 86, 87, 90}

\* A path of one point per square.
setup_animation_pathOnePoint(start_pos, end_pos) ==
  IF end_pos > start_pos THEN end_pos - start_pos ELSE 0

\* Pawn.setup_animation_path: the number of points of the path it builds.
setup_animation_path(start_pos, end_pos) ==
  IF end_pos > start_pos
  THEN steps_per_square * (end_pos - start_pos)
  ELSE 0

InitAnim ==
  \/ \E c \in AnimStarts : MoveInput(c, MaxTurns - 1)
  \/ FreshGame(StarLayout, MaxTurns - 1)

\* A click on the roll button with any dice; Pawn.move builds the path of
\* the pawn it moves and rewinds its animation_index.
RollClickPath ==
  /\ InFlight = {}
  /\ MovePlayer(DiceTotals)
  /\ IF moved' = NoPawn
     THEN UNCHANGED animvars
     ELSE /\ animation_index' = [animation_index EXCEPT ![moved'] = 0]
          /\ animation_len' =
               [animation_len EXCEPT
                  ![moved'] = setup_animation_path(counter[moved'],
                                                   counter'[moved'])]

\* Pawn.update_animation before the end of the path, the clock having
\* advanced by more than animation_speed * 10 ms: one point further.  The
\* points between two squares are not grid squares; rect is written when
\* the walk ends.
AnimationStep(pw) ==
  /\ is_move[pw]
  /\ ~teleporting[pw]
  /\ animation_index[pw] < animation_len[pw]
  /\ animation_index' = [animation_index EXCEPT ![pw] = @ + 1]
  /\ UNCHANGED <<pawnvars, playervars, statevars, auxvars, stars, dict,
                 eventvars, animation_len>>

\* Pawn.update_animation at the end of the path, or of a teleport.
AnimationEnd(pw) ==
  /\ teleporting[pw] \/ animation_index[pw] >= animation_len[pw]
  /\ UpdateAnimation(pw)

Tick(pw) == AnimationStep(pw) \/ AnimationEnd(pw)

NextAnim ==
  \/ RollClickPath
  \/ \E pw \in Pawns : AnimationStep(pw)
  \/ \E pw \in Pawns : AnimationEnd(pw)
  \/ \E pw \in Pawns : LandingChecked(pw)
  \/ \E pw \in Pawns : StarLanding(pw)
  \/ Update

SpecAnim ==
  /\ InitAnim
  /\ [][NextAnim]_vars
  /\ \A pw \in Pawns : WF_vars(Tick(pw))

\* ------------------------------------------------- the first turns, any dice
\* Player.move_out_onto_board is a function of its two dice rolls.  SpecEntry
\* plays the first EntryTurns turns of a fresh game with every dice total.

FirstRollsAnyDice ==
  /\ turns < EntryTurns
  /\ RollClickAnyDice

NextEntry ==
  \/ FirstRollsAnyDice
  \/ \E pw \in Pawns : LandingChecked(pw)
  \/ \E pw \in Pawns : UpdateAnimation(pw)
  \/ \E pw \in Pawns : StarLanding(pw)
  \/ Update

SpecEntry == Init /\ [][NextEntry]_vars

\* ------------------------------------------------ one star effect, any target
\* Star.apply_effect is a function of the pawn and of where the other pawns
\* stand.  SpecStar applies every effect, with every teleport target, to a
\* Red pawn on each star square of Red's first walk while a Blue pawn is on
\* the board: it starts where Spec stands when Red's pawn has been sent
\* home by a star, Blue has entered with a move of b, Yellow and Green
\* have failed to enter, and Red has entered again with a move of d onto
\* a star; the star check and one more turn follow.

StarInput(d, b, t) ==
  /\ counter = [pw \in Pawns |->
                  IF pw = <<1, 1>> THEN d ELSE IF pw = <<2, 2>> THEN b ELSE 0]
  /\ activepawn =
       [pw \in Pawns |->
          pw \in {<<1, 1>>, <<1, 2>>, <<1, 3>>, <<2, 4>>, <<3, 1>>, <<4, 1>>}]
  /\ has_reached_finish = [pw \in Pawns |-> FALSE]
  /\ is_move = [pw \in Pawns |-> FALSE]
  /\ teleporting = [pw \in Pawns |-> FALSE]
  /\ just_finished_animation = [pw \in Pawns |-> pw = <<1, 1>>]
  /\ king = [pw \in Pawns |-> FALSE]
  /\ kingPawn = [pw \in Pawns |-> 0]
  /\ rect = [pw \in Pawns |->
               IF pw = <<1, 1>> THEN DICT[1][d]
               ELSE IF pw = <<2, 2>> THEN DICT[2][b]
               ELSE startpos[pw[1]][pw[2]]]
  /\ animation_end = counter
  /\ pawns = [p \in Players |-> IF p \in {1, 2} THEN 1 ELSE 0]
  /\ pawns_home = [p \in Players |-> 0]
  /\ active = [p \in Players |-> p \in {1, 2}]
  /\ turn = [p \in Players |-> FALSE]
  /\ turn_states = [p \in Players |-> p = 2]
  /\ stActive = [p \in Players |-> p \in {1, 2}]
  /\ stTurn = [p \in Players |-> FALSE]
  /\ activeplayer = 1
  /\ nextplayer = 2
  /\ counterlist = counter
  /\ turns = t
  /\ last_effect = "died"
  /\ roll_again_for = 0
  /\ last_roll = d
  /\ moved = <<1, 1>>
  /\ home_credits = [pw \in Pawns |-> 0]
  /\ entry_roll = EntryRoll
  /\ sessions = 1
  /\ stars = StarLayout
  /\ dict = [pw \in Pawns |-> scale_dict(DICT[pw[1]], TILE_SIZE)]
  /\ NoHandlers
  /\ NoAnimationPath

\* The dice totals that take a pawn of colour p from the yard onto a star
\* square, and those that do not.
StarTotals(p) == {d \in DiceTotals : DICT[p][d] \in StarLayout}
PlainTotals(p) == DiceTotals \ StarTotals(p)

InitStar ==
  \E d \in StarTotals(1), b \in PlainTotals(2) : StarInput(d, b, MaxTurns - 1)

\* Star.apply_effect with any teleport target.
StarLandingAnyTarget(pw) == ApplyEffect(pw, 1..96)

NextStar ==
  \/ RollClick
  \/ \E pw \in Pawns : LandingChecked(pw)
  \/ \E pw \in Pawns : UpdateAnimation(pw)
  \/ \E pw \in Pawns : StarLandingAnyTarget(pw)
  \/ Update

SpecStar == InitStar /\ [][NextStar]_vars

\* ------------------------------------------------ one turn, any star layout
\* create_stars draws STAR_COUNT of the available squares.  SpecStars
\* starts a fresh game on StarLayout and on every layout that differs from
\* it in one star, and plays one turn.

StarLayouts ==
  {(StarLayout \ {a}) \cup {b} :
     a \in StarLayout, b \in AvailablePositions \ StarLayout}
    \cup {StarLayout}

InitStars == \E layout \in StarLayouts : FreshGame(layout, MaxTurns - 1)

SpecStars == InitStars /\ [][Next]_vars

\* ------------------------------------------- a player with no active pawn
\* A pawn's active flag is cleared when it reaches its last square, and only
\* Red's and Blue's flags are ever set again.  SpecIdle starts where Yellow
\* is one move from the finish: Red and Blue stayed in their yards, Yellow
\* entered on the star square e of its path and was teleported to c, and
\* Green, Red and Blue then failed to enter, Blue with the total r.

IdleInput(e, c, r, t) ==
  /\ counter = [pw \in Pawns |-> IF pw = <<3, 1>> THEN c ELSE 0]
  /\ activepawn =
       [pw \in Pawns |->
          pw \in {<<1, 1>>, <<1, 2>>, <<2, 2>>, <<3, 1>>, <<4, 1>>}]
  /\ has_reached_finish = [pw \in Pawns |-> FALSE]
  /\ is_move = [pw \in Pawns |-> FALSE]
  /\ teleporting = [pw \in Pawns |-> FALSE]
  /\ just_finished_animation = [pw \in Pawns |-> FALSE]
  /\ king = [pw \in Pawns |-> FALSE]
  /\ kingPawn = [pw \in Pawns |-> 0]
  /\ rect = [pw \in Pawns |->
               IF pw = <<3, 1>> THEN DICT[3][c] ELSE startpos[pw[1]][pw[2]]]
  /\ animation_end = [pw \in Pawns |-> IF pw = <<3, 1>> THEN e ELSE 0]
  /\ pawns = [p \in Players |-> IF p = 3 THEN 1 ELSE 0]
  /\ pawns_home = [p \in Players |-> 0]
  /\ active = [p \in Players |-> p = 3]
  /\ turn = [p \in Players |-> FALSE]
  /\ turn_states = [p \in Players |-> p = 3]
  /\ stActive = [p \in Players |-> p = 3]
  /\ stTurn = [p \in Players |-> FALSE]
  /\ activeplayer = 1
  /\ nextplayer = 2
  /\ counterlist = counter
  /\ turns = t
  /\ last_effect = "teleported"
  /\ roll_again_for = 0
  /\ last_roll = r
  /\ moved = NoPawn
  /\ home_credits = [pw \in Pawns |-> 0]
  /\ entry_roll = r
  /\ sessions = 1
  /\ stars = StarLayout
  /\ dict = [pw \in Pawns |-> scale_dict(DICT[pw[1]], TILE_SIZE)]
  /\ NoHandlers
  /\ NoAnimationPath

\* The dice totals that do not let a pawn out of the yard.
LowTotals == {d \in DiceTotals : ~EntryAllowed(d)}

\* The squares from which a total of DiceSample reaches a last square.
FinishReach == {c \in 1..96 : \E d \in DiceSample : EntersFinish(c, d)}

InitIdle ==
  \E e \in StarTotals(3), c \in FinishReach, r \in LowTotals :
     IdleInput(e, c, r, MaxTurns - IdleTurns)

SpecIdle == InitIdle /\ [][Next]_vars

\* ------------------------------------------------------ leaving a session
\* Game.init_game_variables runs when a game is started from the menu, the
\* first time and after a return to the menu.  SpecSession plays the first
\* SessionTurns turns and lets the players go back to the menu and start
\* again at any moment.

\* Game.init_game_variables: self.statekpr = Statekeep().  The Statekeep
\* and its four Players are new objects; the pawns and the stars are the
\* objects their modules created when they were imported.
NewSession ==
  /\ sessions < MaxSessions
  /\ sessions' = sessions + 1
  /\ pawns' = [p \in Players |-> 0]
  /\ pawns_home' = [p \in Players |-> 0]
  /\ active' = [p \in Players |-> FALSE]
  /\ turn' = [p \in Players |-> FALSE]
  /\ turn_states' = [p \in Players |-> p = 1]
  /\ stActive' = [p \in Players |-> FALSE]
  /\ stTurn' = [p \in Players |-> FALSE]
  /\ activeplayer' = 1
  /\ nextplayer' = 2
  /\ counterlist' = counter
  /\ UNCHANGED <<pawnvars, turns, last_effect, roll_again_for, last_roll,
                 moved, home_credits, entry_roll, stars, dict, eventvars, animvars>>

SessionRoll ==
  /\ turns < SessionTurns
  /\ RollClick

NextSession ==
  \/ SessionRoll
  \/ NewSession
  \/ \E pw \in Pawns : LandingChecked(pw)
  \/ \E pw \in Pawns : UpdateAnimation(pw)
  \/ \E pw \in Pawns : StarLanding(pw)
  \/ Update

SpecSession == Init /\ [][NextSession]_vars

\* ------------------------------------------------- the turn sequencer alone
\* Statekeep.move_player and Statekeep.find_next_valid_player are functions
\* of turn_states and of the players' pawns_home.  SpecTurn applies them to
\* every turn holder and every vector of pawns_home: player p has its pawns
\* 1 .. pawns_home[p] finished on square 96 and the next one active, and
\* one more turn is played.

FinishedAtStart(home, pw) == pw[2] <= home[pw[1]]

InitTurn ==
  \E home \in [Players -> 0..4], holder \in Players :
    /\ counter = [pw \in Pawns |-> IF FinishedAtStart(home, pw) THEN 96 ELSE 0]
    /\ activepawn = [pw \in Pawns |-> pw[2] = home[pw[1]] + 1]
    /\ has_reached_finish = [pw \in Pawns |-> FALSE]
    /\ is_move = [pw \in Pawns |-> FALSE]
    /\ teleporting = [pw \in Pawns |-> FALSE]
    /\ just_finished_animation = [pw \in Pawns |-> FALSE]
    /\ king = [pw \in Pawns |-> FinishedAtStart(home, pw)]
    /\ kingPawn = [pw \in Pawns |-> IF FinishedAtStart(home, pw) THEN 1 ELSE 0]
    /\ rect = [pw \in Pawns |->
                 IF FinishedAtStart(home, pw)
                 THEN FINISH_POSITIONS[pw[1]][pw[2]]
                 ELSE startpos[pw[1]][pw[2]]]
    /\ animation_end = [pw \in Pawns |-> 0]
    /\ pawns = [p \in Players |-> 0]
    /\ pawns_home = home
    /\ active = [p \in Players |-> FALSE]
    /\ turn = [p \in Players |-> FALSE]
    /\ turn_states = [p \in Players |-> p = holder]
    /\ stActive = [p \in Players |-> FALSE]
    /\ stTurn = [p \in Players |-> FALSE]
    /\ activeplayer = 1
    /\ nextplayer = 2
    /\ counterlist = counter
    /\ turns = MaxTurns - 1
      /\ last_effect = ""
    /\ roll_again_for = 0
    /\ last_roll = 0
    /\ moved = NoPawn
    /\ home_credits =
         [pw \in Pawns |-> IF FinishedAtStart(home, pw) THEN 1 ELSE 0]
    /\ entry_roll = 0
    /\ sessions = 1
    /\ stars = StarLayout
    /\ dict = [pw \in Pawns |-> scale_dict(DICT[pw[1]], TILE_SIZE)]
    /\ NoHandlers
    /\ NoAnimationPath

\* Statekeep.find_next_valid_player
FindNextValidPlayer ==
  /\ turn_states' = NextValidTurnStates(turn_states, pawns_home)
  /\ UNCHANGED <<pawnvars, playervars, stActive, stTurn, activeplayer,
                 nextplayer, counterlist, auxvars, stars, dict, eventvars, animvars>>

NextTurn ==
  \/ RollClick
  \/ FindNextValidPlayer
  \/ \E pw \in Pawns : LandingChecked(pw)
  \/ \E pw \in Pawns : UpdateAnimation(pw)
  \/ \E pw \in Pawns : StarLanding(pw)
  \/ Update

SpecTurn == InitTurn /\ [][NextTurn]_vars

\* ---------------------------------------------------------------- claims

\* A step of move_player in which Player.move moved a pawn.
TurnMovedAPawn == turns' = turns + 1 /\ moved' # NoPawn

\* C1: a pawn at counter c moved by a total d with c + d > 97 keeps its
\* counter c: the move is rejected, not clamped to the last square.
C1_OvershootRejected ==
  [][TurnMovedAPawn /\ counter[moved'] + last_roll' > 97
       => counter'[moved'] = counter[moved']]_vars

\* A pawn on the path, short of the last squares, has just been moved by a
\* total that overshoots 97.
C1_Witness ==
  /\ moved # NoPawn
  /\ is_move[moved]
  /\ counter[moved] \in 1..95
  /\ counter[moved] + last_roll > 97

\* C2: no pawn causes more than one increment of its player's pawns_home.
C2_OneCreditPerPawn == \A pw \in Pawns : home_credits[pw] <= 1

\* A pawn that was credited, whose has_reached_finish flag the animation
\* has reset, has been moved again.
C2_Witness ==
  /\ moved # NoPawn
  /\ home_credits[moved] = 1
  /\ kingPawn[moved] = 1
  /\ ~has_reached_finish[moved]
  /\ is_move[moved]

\* C3: a move of an unfinished pawn that brings its counter to 96 or 97
\* leaves the pawn finished there and adds one to its owner's pawns_home.
C3_FinishCredits ==
  [][TurnMovedAPawn /\ counter[moved'] \notin {96, 97}
       /\ counter[moved'] + last_roll' \in {96, 97}
       => /\ counter'[moved'] = counter[moved'] + last_roll'
          /\ king'[moved']
          /\ pawns_home'[moved'[1]] = pawns_home[moved'[1]] + 1]_vars

\* A pawn has just been moved from 87 onto square 97.
C3_Witness ==
  /\ moved # NoPawn
  /\ is_move[moved]
  /\ has_reached_finish[moved]
  /\ counter[moved] = 97
  /\ last_roll = 10
  /\ pawns_home[moved[1]] = 1

\* C4: every player's pawns_home lies in 0..4 and equals the number of its
\* pawns whose counter is 96 or 97, whatever moves and star effects
\* (teleport included) led to the state.
C4_HomeCountsFinished ==
  \A p \in Players :
    /\ pawns_home[p] \in 0..4
    /\ pawns_home[p] =
         Cardinality({n \in Numbers : counter[<<p, n>>] \in {96, 97}})

\* C5: once a pawn's counter is 96 or 97 it never changes again, and a
\* finished pawn stays finished.
C5_FinishedIsTerminal ==
  [][\A pw \in Pawns :
       counter[pw] \in {96, 97}
         => counter'[pw] = counter[pw] /\ (king[pw] => king'[pw])]_vars

\* A pawn whose counter was 96 or 97 has been picked by a later move, which
\* left it where it was (its animation path is empty).
C5_Witness ==
  /\ moved # NoPawn
  /\ counter[moved] \in {96, 97}
  /\ is_move[moved]
  /\ animation_end[moved] = 0

\* C6: in every reachable state exactly one of the four players holds the
\* turn.
C6_ExactlyOneTurn == Cardinality({p \in Players : turn_states[p]}) = 1

\* The turn has gone round the table and is Red's again.
C6_Witness == turns >= 4 /\ turn_states[1] /\ ~turn_states[4]

C9_RollAgainKeepsTurn ==
  [][roll_again_for # 0 /\ turns' = turns + 1
       => turn_states[roll_again_for]]_vars

\* The colour after p in the order Red, Blue, Yellow, Green, Red.
TableOrder == <<2, 3, 4, 1>>

\* C10: a completed turn passes the turn to the next colour in the order
\* Red, Blue, Yellow, Green, Red.
C10_TurnOrder ==
  [][turns' = turns + 1
       => \A p \in Players : turn_states[p] => turn_states'[TableOrder[p]]]_vars

\* The turn has passed Green -> Red -> Blue.
C10_Witness == turns = 5 /\ turn_states[2] /\ moved # NoPawn

\* The number of player p's pawns whose active flag is set.
ActiveCount(p) == Cardinality({n \in Numbers : activepawn[<<p, n>>]})

\* C11: in every reachable state, a player with at least one pawn on the
\* board (pawns >= 1) has at most one pawn whose active flag is set.
C11_AtMostOneActive ==
  \A p \in Players : pawns[p] >= 1 => ActiveCount(p) <= 1

\* A move that changed the counter of the pawn it picked.
SuccessfulMove == TurnMovedAPawn /\ counter'[moved'] # counter[moved']

\* C12: after a successful move of a player's pawn number n, that pawn is
\* inactive and the same player's pawn number (n mod 4) + 1 is active.
C12_HandoffToNextPawn ==
  [][SuccessfulMove
       => /\ ~activepawn'[moved']
          /\ activepawn'[<<moved'[1], (moved'[2] % 4) + 1>>]]_vars

\* A step of move_player in which the player called move_out_onto_board.
EntryAttempt == turns' = turns + 1 /\ entry_roll' > 0

C14_EntryCounter ==
  [][EntryAttempt /\ entry_roll' >= EntryRoll
       => /\ pawns'[CurrentPlayer] = 1
          /\ moved' # NoPawn
          /\ counter'[moved'] = 1 + entry_roll']_vars

\* C15: a pawn's counter goes from 0 to a positive value only in a
\* move_out_onto_board call with a roll of at least 10, never in a move of
\* a player that already has pawns on the board.
C15_LeavesYardOnlyByEntry ==
  [][\A pw \in Pawns :
       counter[pw] = 0 /\ counter'[pw] > 0
         => entry_roll' >= EntryRoll /\ pawns[pw[1]] = 0]_vars

\* C16: between turns, each player's pawns equals the number of its pawns
\* whose counter is greater than 0.
C16_PawnsCountsOnBoard ==
  InFlight = {}
    => \A p \in Players :
         pawns[p] = Cardinality({n \in Numbers : counter[<<p, n>>] > 0})

\* Square c of colour p's path lies on the loop the colours share: its
\* board coordinate is also on the path of another colour.
OnSharedLoop(p, c) ==
  \E q \in Players \ {p} : \E k \in 1..LastSquare : DICT[q][k] = DICT[p][c]

\* The move_player step moves a pawn onto a shared-loop square on which
\* pawn o of another colour stands.
LandsOnOpponent(o) ==
  /\ TurnMovedAPawn
  /\ o[1] # moved'[1]
  /\ counter[o] > 0
  /\ counter[moved'] + last_roll' <= LastSquare
  /\ OnSharedLoop(moved'[1], counter[moved'] + last_roll')
  /\ rect[o] = DICT[moved'[1]][counter[moved'] + last_roll']

\* C17: when a move ends on a shared-loop square occupied by a pawn of
\* another colour, that pawn's counter is 0 after the move, its player's
\* pawns is one less, and the mover's counter is its old counter plus the
\* roll.
C17_CaptureSendsHome ==
  [][\A o \in Pawns :
       LandsOnOpponent(o)
         => /\ counter'[o] = 0
            /\ pawns'[o[1]] = pawns[o[1]] - 1
            /\ counter'[moved'] = counter[moved'] + last_roll']_vars

\* C18: a move changes the counter of no other pawn of the mover's player,
\* also when one of them stands on the landing square.
C18_OwnPawnsKeepCounters ==
  [][TurnMovedAPawn
       => \A n \in Numbers :
            n # moved'[2]
              => counter'[<<moved'[1], n>>] = counter[<<moved'[1], n>>]]_vars

\* A pawn has just been moved onto the square on which another pawn of its
\* own colour stands.
C18_Witness ==
  /\ moved # NoPawn
  /\ is_move[moved]
  /\ animation_end[moved] = counter[moved]
  /\ \E n \in Numbers :
       /\ n # moved[2]
       /\ counter[<<moved[1], n>>] = counter[moved]
       /\ rect[<<moved[1], n>>] = DICT[moved[1]][counter[moved]]

\* A step in which Star.apply_effect returned eff for pawn pw.
StarEffectOn(pw, eff) ==
  /\ just_finished_animation[pw]
  /\ ~just_finished_animation'[pw]
  /\ rect[pw] \in stars
  /\ last_effect' = eff

\* C19: the star effect send home on a pawn with counter c > 0 leaves the
\* pawn's counter at 0 and its player's pawns one less than before, and
\* changes no other pawn and no other player.
C19_SendHome ==
  [][\A pw \in Pawns :
       StarEffectOn(pw, "died") /\ counter[pw] > 0
         => /\ counter'[pw] = 0
            /\ pawns'[Owner(pw)] = pawns[Owner(pw)] - 1
            /\ \A q \in Pawns \ {pw} :
                 /\ counter'[q] = counter[q]
                 /\ rect'[q] = rect[q]
                 /\ activepawn'[q] = activepawn[q]
                 /\ king'[q] = king[q]
            /\ \A p \in Players \ {Owner(pw)} : pawns'[p] = pawns[p]
            /\ pawns_home' = pawns_home
            /\ active' = active
            /\ turn_states' = turn_states]_vars

\* A Red pawn that stood on square 7 has been sent home by the star there,
\* while a Blue pawn stays on the board.
C19_Witness ==
  /\ last_effect = "died"
  /\ last_roll = 7
  /\ counter[<<1, 1>>] = 0
  /\ rect[<<1, 1>>] = startpos[1][1]
  /\ ~just_finished_animation[<<1, 1>>]
  /\ pawns[1] = 0
  /\ counter[<<2, 2>>] > 0

\* C20: after a star teleport with outcome teleported, the pawn's counter
\* is a position 1..96 of its own path whose board coordinate is not the
\* coordinate of any other pawn.
C20_TeleportToFreeSquare ==
  [][\A pw \in Pawns :
       StarEffectOn(pw, "teleported")
         => /\ counter'[pw] \in 1..96
            /\ rect'[pw] = DICT[pw[1]][counter'[pw]]
            /\ \A q \in Pawns \ {pw} :
                 rect'[q] # DICT[pw[1]][counter'[pw]]]_vars

\* A Red pawn has been teleported while a Blue pawn stands on a square of
\* Red's path: Red's pawn is on the square next to it.
C20_Witness ==
  /\ last_effect = "teleported"
  /\ ~just_finished_animation[<<1, 1>>]
  /\ turn_states[2]
  /\ \E c \in 1..96 :
       /\ rect[<<2, 2>>] = DICT[1][c]
       /\ counter[<<1, 1>>] = c + 1

\* C22: a star teleport changes the counter of no other pawn and no
\* player's pawns or pawns_home: it triggers no capture and no finish
\* credit.
C22_TeleportTouchesOnePawn ==
  [][\A pw \in Pawns :
       StarEffectOn(pw, "teleported")
         => /\ \A q \in Pawns \ {pw} : counter'[q] = counter[q]
            /\ pawns' = pawns
            /\ pawns_home' = pawns_home]_vars

\* A Red pawn has been teleported onto the counter value that a Blue pawn
\* on the board also has.
C22_Witness ==
  /\ last_effect = "teleported"
  /\ ~just_finished_animation[<<1, 1>>]
  /\ turn_states[2]
  /\ counter[<<2, 2>>] > 0
  /\ counter[<<1, 1>>] = counter[<<2, 2>>]
  /\ pawns_home[1] = 0

\* C23 as stated: the counter of a pawn on the path never decreases from
\* one state to the next, except in a step that resets it to 0.
C23_CounterNeverDecreases ==
  [][\A pw \in Pawns :
       counter[pw] > 0 /\ counter'[pw] < counter[pw] => counter'[pw] = 0]_vars

\* C23, amended: the counter of a pawn on the path decreases only in a
\* star effect on that pawn: a send home, which resets it to 0, or a
\* teleport, which may put it on any lower position; a move never lowers
\* it.
C23_CounterDecreasesOnlyByStar ==
  [][\A pw \in Pawns :
       counter[pw] > 0 /\ counter'[pw] < counter[pw]
         => \/ StarEffectOn(pw, "died") /\ counter'[pw] = 0
            \/ StarEffectOn(pw, "teleported") /\ counter'[pw] > 0]_vars

\* A star has teleported Red's pawn from square 9 back to square 1.
C23_Witness ==
  /\ last_effect = "teleported"
  /\ ~just_finished_animation[<<1, 1>>]
  /\ animation_end[<<1, 1>>] = 9
  /\ counter[<<1, 1>>] = 1

\* C24: a move request that overshoots position 97 leaves the game state
\* unchanged: all counters, all active flags and every player's pawns and
\* pawns_home are as before.
C24_RejectedMoveChangesNothing ==
  [][TurnMovedAPawn /\ counter[moved'] + last_roll' > LastSquare
       => /\ counter' = counter
          /\ activepawn' = activepawn
          /\ pawns' = pawns
          /\ pawns_home' = pawns_home]_vars

\* C30: a player's move changes the active flag of no pawn of another
\* player.
C30_OtherPlayersFlagsKept ==
  [][TurnMovedAPawn
       => \A q \in Pawns :
            q[1] # moved'[1] => activepawn'[q] = activepawn[q]]_vars

\* Player p holds the turn and is the only player with pawns_home < 4.
OnlyHolderRemains(p) ==
  /\ turn_states[p]
  /\ pawns_home[p] < 4
  /\ \A q \in Players \ {p} : pawns_home[q] >= 4

SpecialPositions == {1} \cup (92..97)

\* The grid squares of those positions, for all colours.
SpecialSquares == {DICT[p][c] : p \in Players, c \in SpecialPositions}

\* C27: whatever positions create_stars has sampled, no star is on a square
\* that is some colour's entry square, exit square or finish-lane square.
C27_StarsOffSpecialSquares == \A sq \in stars : sq \notin SpecialSquares

\* C28: a new session begins with every pawn's counter 0, only pawn 1 of
\* each player active, every player's pawns and pawns_home 0 and Red
\* holding the turn, whatever state the previous session had reached.
C28_NewSessionStartsFresh ==
  [][sessions' = sessions + 1
       => /\ counter' = [pw \in Pawns |-> 0]
          /\ activepawn' = [pw \in Pawns |-> pw[2] = 1]
          /\ pawns' = [p \in Players |-> 0]
          /\ pawns_home' = [p \in Players |-> 0]
          /\ turn_states' = [p \in Players |-> p = 1]]_vars

\* C25: when a player with a pawn on the board takes a turn while none of
\* its pawns is active, its pawn 1 is made active by that turn.
C25_IdleTurnActivatesFirstPawn ==
  [][(/\ turns' = turns + 1
      /\ pawns[CurrentPlayer] >= 1
      /\ ActiveCount(CurrentPlayer) = 0)
       => activepawn'[<<CurrentPlayer, 1>>]]_vars

\* C29: at every step, the path table of every pawn's colour is defined on
\* each position 1..96 and gives the coordinate it gave before the step;
\* no operation of the game modifies a path table.
C29_PathTablesTotalAndFixed ==
  [][/\ \A pw \in Pawns : (1..96) \subseteq DOMAIN dict[pw]
     /\ dict' = dict]_vars

\* A teleport has looked up position 96, the last one of the claim, and
\* put the pawn on the square the table gives.
C29_Witness ==
  /\ last_effect = "teleported"
  /\ \E pw \in Pawns :
       /\ counter[pw] = 96
       /\ ~has_reached_finish[pw]
       /\ rect[pw] = GridSquare(dict[pw][96])

\* The pawns whose animation has not yet set its completion flag.
Animating == {pw \in Pawns : is_move[pw] \/ teleporting[pw]}

C32_SnapshotFollowsCounters ==
  [][counter' # counter => counterlist' = counter']_vars

\* The squares of colour p's finish lane, and all squares of its path.
FinishLane(p) == {DICT[p][c] : c \in 93..96}
PathSquares(p) == {DICT[p][k] : k \in 1..LastSquare}

\* The pairs of colours of which the second's path runs over the first's
\* finish lane.
LaneClashes ==
  {pq \in Players \X Players :
     pq[1] # pq[2] /\ FinishLane(pq[1]) \cap PathSquares(pq[2]) # {}}

\* C33: the squares of a colour's path positions 93..96 occur at no
\* position 1..97 of another colour's path, and no pawn of another colour
\* ever stands on them.
C33_FinishLanesPrivate ==
  /\ LaneClashes = {}
  /\ \A q \in Pawns : \A p \in Players \ {q[1]} : rect[q] \notin FinishLane(p)

\* A pawn stands on a square of its own finish lane while a pawn of
\* another colour is on the path.
C33_Witness ==
  \E pw \in Pawns, q \in Pawns :
    /\ pw[1] # q[1]
    /\ counter[pw] \in 93..96
    /\ rect[pw] \in FinishLane(pw[1])
    /\ counter[q] \in 1..92
    /\ rect[q] \in PathSquares(q[1])

\* C34: in every reachable state the counter of every pawn is an integer
\* in 0..97.
C34_CounterInRange == \A pw \in Pawns : counter[pw] \in 0..LastSquare

\* A pawn that a star had teleported near the end of its path has rolled
\* past the last square, and its walk has ended where it stood.
C34_Witness ==
  /\ moved # NoPawn
  /\ last_effect = "teleported"
  /\ counter[moved] \in 1..95
  /\ counter[moved] + last_roll > LastSquare
  /\ animation_end[moved] = 0
  /\ InFlight = {}

\* C35: in every reachable state the pawns count of every player is in
\* 0..4; no sequence of send-home effects makes it negative.
C35_PawnsInRange == \A p \in Players : pawns[p] \in 0..4

\* C36: in every reachable state every player has at least one pawn whose
\* active flag is set.
C36_EveryPlayerHasActivePawn == \A p \in Players : ActiveCount(p) >= 1

\* The player p still has a pawn that has not reached a last square.
HasUnfinishedPawn(p) == \E n \in Numbers : counter[<<p, n>>] \notin {96, 97}

\* C37: a turn is never spent on a pawn whose counter is already 96 or 97
\* while its player still has a pawn that is not finished.
C37_TurnNotSpentOnFinishedPawn ==
  [][TurnMovedAPawn /\ HasUnfinishedPawn(moved'[1])
       => counter[moved'] \notin {96, 97}]_vars

\* C38: a handler that raises during a trigger_game_event call does not
\* stop the dispatch: every handler registered for the event type is
\* called, in registration order, and nothing raised reaches the caller.
C38_RaisingHandlerDoesNotStopDispatch ==
  last_dispatch.type # "none"
    => /\ last_dispatch.calls = last_dispatch.handlers
       /\ last_dispatch.escaped = "none"

\* C38, amended: the same, for handlers that return or raise an exception
\* of class Exception.
C38_ExceptionDoesNotStopDispatch ==
  (/\ last_dispatch.type # "none"
   /\ \A i \in DOMAIN last_dispatch.outcomes :
        last_dispatch.outcomes[i] # "SystemExit")
    => /\ last_dispatch.calls = last_dispatch.handlers
       /\ last_dispatch.escaped = "none"

\* A handler raised an Exception and the handlers registered after it were
\* called all the same.
C38_Witness ==
  /\ last_dispatch.type # "none"
  /\ last_dispatch.escaped = "none"
  /\ Len(last_dispatch.calls) = MaxHandlers
  /\ \E i \in 1..(MaxHandlers - 1) : last_dispatch.outcomes[i] = "Exception"

\* The walks that have ended after steps_per_square points per square.
WalkEnded(pw) ==
  /\ ~is_move[pw]
  /\ animation_len[pw] > 0
  /\ animation_index[pw] = animation_len[pw]

====
